---- MODULE Spec2Model ----
(***************************************************************************)
(* ImageGrouper.js: grouping of an ordered list of images on blank         *)
(* delimiter images.  The module models the ImageGrouper class: the merged *)
(* configuration built by the constructor, hexToRgb, the sampling and      *)
(* thresholding of isBlankImage, the scan of groupImages and saveGroups.   *)
(*                                                                         *)
(* Representation.  A JS string that is parsed (a hex colour) is a         *)
(* sequence of one-character strings.  A JS object with optional keys      *)
(* (the options argument, the user configuration) is a function whose      *)
(* DOMAIN is the set of keys that are present, so that reading a missing   *)
(* key is the JS undefined.  A Uint8ClampedArray pixel is the 4-tuple      *)
(* <<r, g, b, a>>, pixel[0] of the source being pixel[1] here.             *)
(***************************************************************************)
EXTENDS Integers, Sequences, FiniteSets, TLC

VARIABLES
    thisConfig,     \* this.config of the instance
    images,         \* argument images of groupImages
    options,        \* argument options of groupImages (present keys only)
    pc,             \* position of the running call
    config,         \* local const config of groupImages
    idx,            \* number of elements of images the for-of loop has consumed
    groups,         \* local groups of groupImages
    currentGroup,   \* local currentGroup of groupImages
    groupsAt,       \* history: input positions of the members of groups
    currentAt,      \* history: input positions of the members of currentGroup
    calls,          \* history: the isBlankImage invocations of the call, in order
    result,         \* value returned by groupImages
    pure            \* argument and result of a directly called method

vars == <<thisConfig, images, options, pc, config, idx, groups, currentGroup,
          groupsAt, currentAt, calls, result, pure>>

-----------------------------------------------------------------------------
(* Bounds *)

MaxImages == 4      \* longest input list of groupImages
MaxHexLen == 7      \* longest string handed to hexToRgb
MaxDim == 8         \* largest |width|, |height| of an image handed to the sampler

-----------------------------------------------------------------------------
(* Colour strings *)

WHITE == <<"#", "F", "F", "F", "F", "F", "F">>
BLACK == <<"#", "0", "0", "0", "0", "0", "0">>
OFFWHITE == <<"f", "a", "f", "a", "f", "a">>
NOTACOLOR == <<"g", "0", "0">>

HexDigitValue(c) ==
    CASE c = "0" -> 0 [] c = "1" -> 1 [] c = "2" -> 2 [] c = "3" -> 3
      [] c = "4" -> 4 [] c = "5" -> 5 [] c = "6" -> 6 [] c = "7" -> 7
      [] c = "8" -> 8 [] c = "9" -> 9
      [] c \in {"a", "A"} -> 10 [] c \in {"b", "B"} -> 11
      [] c \in {"c", "C"} -> 12 [] c \in {"d", "D"} -> 13
      [] c \in {"e", "E"} -> 14 [] c \in {"f", "F"} -> 15

\* the character class [a-f\d] under the i flag
HexClass ==
    {"0", "1", "2", "3", "4", "5", "6", "7", "8", "9",
     "a", "b", "c", "d", "e", "f", "A", "B", "C", "D", "E", "F"}

\* parseInt(s, 16) of a two-character capture
parseInt16(s) == 16 * HexDigitValue(s[1]) + HexDigitValue(s[2])

\* the same expression without the $ anchor: trailing characters are accepted
hexExec_unanchored(hex) ==
    LET skip == IF Len(hex) >= 1 /\ hex[1] = "#" THEN 1 ELSE 0
        body == SubSeq(hex, skip + 1, Len(hex))
    IN  IF Len(body) >= 6 /\ \A i \in 1..6 : body[i] \in HexClass
        THEN <<SubSeq(body, 1, 2), SubSeq(body, 3, 4), SubSeq(body, 5, 6)>>
        ELSE <<>>

\* /^#?([a-f\d]{2})([a-f\d]{2})([a-f\d]{2})$/i.exec(hex): the three captures,
\* or <<>> for null.  '#' is not in the class, so the optional '#' is taken
\* exactly when the string starts with one.
hexExec(hex) ==
    LET skip == IF Len(hex) >= 1 /\ hex[1] = "#" THEN 1 ELSE 0
        body == SubSeq(hex, skip + 1, Len(hex))
    IN  IF Len(body) = 6 /\ \A i \in 1..6 : body[i] \in HexClass
        THEN <<SubSeq(body, 1, 2), SubSeq(body, 3, 4), SubSeq(body, 5, 6)>>
        ELSE <<>>

hexToRgb(hex) ==
    LET res == hexExec(hex)
    IN  IF res # <<>>
        THEN [r |-> parseInt16(res[1]), g |-> parseInt16(res[2]), b |-> parseInt16(res[3])]
        ELSE [r |-> 255, g |-> 255, b |-> 255]

-----------------------------------------------------------------------------
(* Images and the blank test *)

Abs(n) == IF n < 0 THEN -n ELSE n

\* Math.ceil(n / d) in place of Math.floor
FloorDiv_ceil(n, d) == -((-n) \div d)

\* Math.floor(n / d) for d > 0
FloorDiv(n, d) == n \div d

samplePoints(width, height) ==
    << [x |-> FloorDiv(width, 2),     y |-> FloorDiv(height, 2)],
       [x |-> FloorDiv(width, 4),     y |-> FloorDiv(height, 4)],
       [x |-> FloorDiv(3 * width, 4), y |-> FloorDiv(3 * height, 4)] >>

\* ctx.getImageData(x, y, 1, 1).data on the canvas the image was drawn on:
\* the pixel of the image inside its bounds, transparent black outside.
getImageData(image, x, y) ==
    IF x \in 0..(image.width - 1) /\ y \in 0..(image.height - 1)
    THEN image.data[y][x]
    ELSE <<0, 0, 0, 0>>

pointDiff(pixel, targetRGB) ==
    Abs(pixel[1] - targetRGB.r) + Abs(pixel[2] - targetRGB.g) + Abs(pixel[3] - targetRGB.b)

totalDiff(image, blankColor) ==
    LET pts == samplePoints(image.width, image.height)
        targetRGB == hexToRgb(blankColor)
        d(i) == pointDiff(getImageData(image, pts[i].x, pts[i].y), targetRGB)
    IN  d(1) + d(2) + d(3)

\* avgDiff < threshold in place of avgDiff <= threshold
avgWithin_strict(total, threshold) == total < 3 * threshold

\* avgDiff <= threshold with avgDiff = totalDiff / samplePoints.length:
\* for integers, totalDiff / 3 <= threshold iff totalDiff <= 3 * threshold
avgWithin(total, threshold) == total <= 3 * threshold

isBlankImage(image, blankColor, threshold) ==
    avgWithin(totalDiff(image, blankColor), threshold)

-----------------------------------------------------------------------------
(* Objects with optional keys *)

\* the object { blankColor, threshold, saveGroups } in which a key is present
\* exactly when the set given for it is non-empty (and then holds its element)
Options(bc, th, sg) ==
    LET given(k) == CASE k = "blankColor" -> bc [] k = "threshold" -> th
                      [] k = "saveGroups" -> sg
    IN  [k \in {kk \in {"blankColor", "threshold", "saveGroups"} : given(kk) # {}} |->
            CHOOSE v \in given(k) : TRUE]

\* obj[key] || fallback, for a string, a number and a boolean under key:
\* undefined, '', 0 and false are falsy
orString(obj, key, fallback) ==
    IF key \in DOMAIN obj /\ obj[key] # <<>> THEN obj[key] ELSE fallback

orNumber(obj, key, fallback) ==
    IF key \in DOMAIN obj /\ obj[key] # 0 THEN obj[key] ELSE fallback

orBoolean(obj, key, fallback) ==
    IF key \in DOMAIN obj /\ obj[key] THEN obj[key] ELSE fallback

\* a parameter with a default value: the default replaces undefined only
Default(args, key, dflt) == IF key \in DOMAIN args THEN args[key] ELSE dflt

-----------------------------------------------------------------------------
(* constructor *)

defaultConfig ==
    [delimiterColor |-> WHITE, colorThreshold |-> 10, groupFolder |-> TRUE,
     namingScheme |-> "group"]

\* { ...defaults, ...config }
constructor(userConfig) ==
    [k \in DOMAIN defaultConfig \cup DOMAIN userConfig |->
        IF k \in DOMAIN userConfig THEN userConfig[k] ELSE defaultConfig[k]]

UserConfigs ==
    { <<>>,
      [delimiterColor |-> BLACK],
      [colorThreshold |-> 20],
      [colorThreshold |-> 0, groupFolder |-> FALSE, namingScheme |-> "scan"] }

-----------------------------------------------------------------------------
(* Inputs of groupImages *)

WhitePixel == <<255, 255, 255, 255>>
BlackPixel == <<0, 0, 0, 255>>

\* a width x height image of colour bg whose pixel (i, i) is diag[i] for i in DOMAIN diag
MkImage(width, height, bg, diag) ==
    [width |-> width, height |-> height,
     data |-> [y \in 0..(height - 1) |-> [x \in 0..(width - 1) |->
                  IF x = y /\ x \in DOMAIN diag THEN diag[x] ELSE bg]]]

imageA == MkImage(4, 4, BlackPixel, <<>>)
imageB == MkImage(4, 4, WhitePixel, <<>>)
\* white page with scanner noise at the centre: total difference 20 to white
imageN == MkImage(4, 4, WhitePixel, <<WhitePixel, <<245, 245, 255, 255>>, WhitePixel>>)

ImagePool == {imageA, imageB, imageN}

SeqsUpTo(S, n) == UNION {[1..k -> S] : k \in 0..n}

OptionsPool ==
    { Options(bc, th, sg) :
        bc \in {{}, {WHITE}, {BLACK}},
        th \in {{}, {0}, {20}},
        sg \in {{}, {FALSE}, {TRUE}} }

NoConfig == [blankColor |-> <<>>, threshold |-> 0, saveGroups |-> FALSE]
NoPure == [fn |-> "none", done |-> FALSE, ret |-> <<>>]

Init ==
    /\ thisConfig \in {constructor(u) : u \in UserConfigs}
    /\ images \in SeqsUpTo(ImagePool, MaxImages)
    /\ options \in OptionsPool
    /\ pc = "ready"
    /\ config = NoConfig
    /\ idx = 0
    /\ groups = <<>>
    /\ currentGroup = <<>>
    /\ groupsAt = <<>>
    /\ currentAt = <<>>
    /\ calls = <<>>
    /\ result = <<>>
    /\ pure = NoPure

-----------------------------------------------------------------------------
(* saveGroups *)

saveImage(image, newName) == [image |-> image, newName |-> newName]

\* createFolder and moveImagesToFolder are empty placeholders: no effect
saveGroups(gs, cfg) ==
    [groupIndex \in 1..Len(gs) |->
        LET groupName == cfg.namingScheme \o ToString(groupIndex)
        IN  [imageIndex \in 1..Len(gs[groupIndex]) |->
                saveImage(gs[groupIndex][imageIndex],
                          groupName \o "-image" \o ToString(imageIndex))]]

-----------------------------------------------------------------------------
(* groupImages *)

\* lines 37-44: the per-call configuration and the empty accumulators
resolveConfig(opts, cfg) ==
    [blankColor |-> orString(opts, "blankColor", cfg.delimiterColor),
     threshold  |-> orNumber(opts, "threshold", cfg.colorThreshold),
     saveGroups |-> orBoolean(opts, "saveGroups", FALSE)]

Enter ==
    /\ pc = "ready"
    /\ config' = resolveConfig(options, thisConfig)
    /\ groups' = <<>>
    /\ currentGroup' = <<>>
    /\ groupsAt' = <<>>
    /\ currentAt' = <<>>
    /\ idx' = 0
    /\ pc' = "loop"
    /\ UNCHANGED <<thisConfig, images, options, calls, result, pure>>

\* the isBlankImage invocation of line 47 on the next element
classify(image, cfg) == isBlankImage(image, cfg.blankColor, cfg.threshold)

\* the image classified a second time
logCall_twice(log, pos, cfg, ret) ==
    LET e == [pos |-> pos, blankColor |-> cfg.blankColor,
              threshold |-> cfg.threshold, ret |-> ret]
    IN  Append(Append(log, e), e)

logCall(log, pos, cfg, ret) ==
    Append(log, [pos |-> pos, blankColor |-> cfg.blankColor,
                 threshold |-> cfg.threshold, ret |-> ret])

\* groups.unshift(currentGroup) in place of groups.push(currentGroup)
pushGroup_front(gs, g) == <<g>> \o gs

\* groups.push(currentGroup)
pushGroup(gs, g) == Append(gs, g)

\* the flush without the test currentGroup.length > 0
LoopFlush_noGuard ==
    /\ pc = "loop"
    /\ idx < Len(images)
    /\ classify(images[idx + 1], config)
    /\ groups' = pushGroup(groups, currentGroup)
    /\ currentGroup' = <<>>
    /\ groupsAt' = pushGroup(groupsAt, currentAt)
    /\ currentAt' = <<>>
    /\ calls' = logCall(calls, idx + 1, config, TRUE)
    /\ idx' = idx + 1
    /\ UNCHANGED <<thisConfig, images, options, pc, config, result, pure>>

\* the flush without the reset currentGroup = []
LoopFlush_keepBuffer ==
    /\ pc = "loop"
    /\ idx < Len(images)
    /\ classify(images[idx + 1], config)
    /\ Len(currentGroup) > 0
    /\ groups' = pushGroup(groups, currentGroup)
    /\ groupsAt' = pushGroup(groupsAt, currentAt)
    /\ calls' = logCall(calls, idx + 1, config, TRUE)
    /\ idx' = idx + 1
    /\ UNCHANGED <<thisConfig, images, options, pc, config, currentGroup, currentAt,
                   result, pure>>

\* lines 47-51: a blank image with a non-empty buffer flushes the buffer
LoopFlush ==
    /\ pc = "loop"
    /\ idx < Len(images)
    /\ classify(images[idx + 1], config)
    /\ Len(currentGroup) > 0
    /\ groups' = pushGroup(groups, currentGroup)
    /\ currentGroup' = <<>>
    /\ groupsAt' = pushGroup(groupsAt, currentAt)
    /\ currentAt' = <<>>
    /\ calls' = logCall(calls, idx + 1, config, TRUE)
    /\ idx' = idx + 1
    /\ UNCHANGED <<thisConfig, images, options, pc, config, result, pure>>

\* lines 47-48: a blank image with an empty buffer changes nothing
LoopSkip ==
    /\ pc = "loop"
    /\ idx < Len(images)
    /\ classify(images[idx + 1], config)
    /\ ~(Len(currentGroup) > 0)
    /\ calls' = logCall(calls, idx + 1, config, TRUE)
    /\ idx' = idx + 1
    /\ UNCHANGED <<thisConfig, images, options, pc, config, groups, currentGroup,
                   groupsAt, currentAt, result, pure>>

\* lines 52-54: a non-blank image is appended to the buffer
LoopPush ==
    /\ pc = "loop"
    /\ idx < Len(images)
    /\ ~classify(images[idx + 1], config)
    /\ currentGroup' = Append(currentGroup, images[idx + 1])
    /\ currentAt' = Append(currentAt, idx + 1)
    /\ calls' = logCall(calls, idx + 1, config, FALSE)
    /\ idx' = idx + 1
    /\ UNCHANGED <<thisConfig, images, options, pc, config, groups, groupsAt,
                   result, pure>>

\* the return without the final flush of lines 57-59
finalGroups_noFlush(gs, g) == gs

\* the final flush without the test currentGroup.length > 0
finalGroups_always(gs, g) == pushGroup(gs, g)

\* lines 57-61: the final flush and the return
finalGroups(gs, g) == IF Len(g) > 0 THEN pushGroup(gs, g) ELSE gs

Return ==
    /\ pc = "loop"
    /\ idx = Len(images)
    /\ groups' = finalGroups(groups, currentGroup)
    /\ groupsAt' = finalGroups(groupsAt, currentAt)
    /\ result' = IF config.saveGroups THEN saveGroups(groups', thisConfig) ELSE groups'
    /\ pc' = "returned"
    /\ UNCHANGED <<thisConfig, images, options, config, idx, currentGroup, currentAt,
                   calls, pure>>

Next == Enter \/ LoopFlush \/ LoopSkip \/ LoopPush \/ Return

Spec == Init /\ [][Next]_vars

-----------------------------------------------------------------------------
(* Direct calls of the pure methods *)

\* the variables of a groupImages call, for a behaviour that makes none
NoGroupCall ==
    /\ images = <<>>
    /\ options = <<>>
    /\ pc = "direct"
    /\ config = NoConfig
    /\ idx = 0
    /\ groups = <<>>
    /\ currentGroup = <<>>
    /\ groupsAt = <<>>
    /\ currentAt = <<>>
    /\ calls = <<>>
    /\ result = <<>>

groupVars == <<thisConfig, images, options, pc, config, idx, groups, currentGroup,
               groupsAt, currentAt, calls, result>>

returns(v) == pure' = [pure EXCEPT !.done = TRUE, !.ret = <<v>>]

(* hexToRgb(hex) *)

\* '#', a digit, a lower-case and an upper-case hex letter, a character outside the class
HexAlphabet == {"#", "0", "a", "F", "g"}

InitHexToRgb ==
    /\ thisConfig = constructor(<<>>)
    /\ NoGroupCall
    /\ \E hex \in SeqsUpTo(HexAlphabet, MaxHexLen) :
          pure = [fn |-> "hexToRgb", arg |-> hex, done |-> FALSE, ret |-> <<>>]

CallHexToRgb ==
    /\ pure.fn = "hexToRgb"
    /\ ~pure.done
    /\ returns(hexToRgb(pure.arg))
    /\ UNCHANGED groupVars

SpecHexToRgb == InitHexToRgb /\ [][CallHexToRgb]_vars

(* the sample points of isBlankImage, lines 81-85 *)

InitSamplePoints ==
    /\ thisConfig = constructor(<<>>)
    /\ NoGroupCall
    /\ \E w \in (-MaxDim)..MaxDim, h \in (-MaxDim)..MaxDim :
          pure = [fn |-> "samplePoints", arg |-> [width |-> w, height |-> h],
                  done |-> FALSE, ret |-> <<>>]

CallSamplePoints ==
    /\ pure.fn = "samplePoints"
    /\ ~pure.done
    /\ returns(samplePoints(pure.arg.width, pure.arg.height))
    /\ UNCHANGED groupVars

SpecSamplePoints == InitSamplePoints /\ [][CallSamplePoints]_vars

(* isBlankImage(image, blankColor, threshold) *)

\* pixels at total channel distance 0, 10, 15, 30 and 765 from white
PixelPool ==
    { WhitePixel, <<245, 255, 255, 255>>, <<250, 250, 250, 255>>,
      <<225, 255, 255, 255>>, BlackPixel }

\* colour arguments with the colour each one stands for
ColorArgs ==
    { [hex |-> WHITE, rgb |-> <<255, 255, 255>>],
      [hex |-> OFFWHITE, rgb |-> <<250, 250, 250>>],
      [hex |-> NOTACOLOR, rgb |-> <<255, 255, 255>>] }

ThresholdArgs == {0, 5, 10}

\* the image whose pixels at the centre, the quarter point and the three-quarter
\* point are px[1], px[2], px[3]; every other pixel is bg
Sampled(shape, px, bg) ==
    IF shape = 1 THEN MkImage(1, 1, bg, [i \in {0} |-> px[1]])
    ELSE MkImage(4, 4, bg, <<px[2], px[1], px[3]>>)

InitIsBlankImage ==
    /\ thisConfig \in {constructor(u) : u \in UserConfigs}
    /\ NoGroupCall
    /\ \E shape \in {1, 4}, px \in [1..3 -> PixelPool], bg \in {WhitePixel, BlackPixel},
          c \in ColorArgs, hasColor \in BOOLEAN, th \in {{t} : t \in ThresholdArgs} \cup {{}} :
          /\ shape = 1 => px[1] = px[2] /\ px[2] = px[3] /\ bg = BlackPixel
          /\ ~hasColor => c.hex = WHITE
          /\ pure = [fn |-> "isBlankImage",
                     arg |-> [image |-> Sampled(shape, px, bg),
                              args |-> Options(IF hasColor THEN {c.hex} ELSE {}, th, {})],
                     px |-> px, rgb |-> c.rgb,
                     done |-> FALSE, ret |-> <<>>]

CallIsBlankImage ==
    /\ pure.fn = "isBlankImage"
    /\ ~pure.done
    /\ returns(isBlankImage(pure.arg.image,
                            Default(pure.arg.args, "blankColor", WHITE),
                            Default(pure.arg.args, "threshold", 10)))
    /\ UNCHANGED groupVars

SpecIsBlankImage == InitIsBlankImage /\ [][CallIsBlankImage]_vars

-----------------------------------------------------------------------------
(* Properties of groupImages *)

RECURSIVE Concat(_)
Concat(ss) == IF ss = <<>> THEN <<>> ELSE Head(ss) \o Concat(Tail(ss))

IsPrefix(s, t) == Len(s) <= Len(t) /\ SubSeq(t, 1, Len(s)) = s

\* the classification of input position i under the configuration of the call
BlankAt(i) == isBlankImage(images[i], config.blankColor, config.threshold)

\* the input positions up to k that are classified non-blank, ascending
RECURSIVE NonBlankUpTo(_)
NonBlankUpTo(k) ==
    IF k = 0 THEN <<>>
    ELSE IF BlankAt(k) THEN NonBlankUpTo(k - 1) ELSE Append(NonBlankUpTo(k - 1), k)

ImagesAt(ps) == [j \in 1..Len(ps) |-> images[ps[j]]]

Returned == pc = "returned"
Plain == Returned /\ ~config.saveGroups

\* C1: with saveGroups off, the returned groups concatenated in order are the
\* non-blank images of the input in input order: the members sit at exactly the
\* non-blank positions, each once, ascending.
C1_ConcatIsNonBlankSubsequence ==
    Plain =>
        /\ Concat(groupsAt) = NonBlankUpTo(Len(images))
        /\ Concat(result) = ImagesAt(NonBlankUpTo(Len(images)))

C1_Witness ==
    /\ Plain
    /\ Len(result) >= 2
    /\ \E i \in 1..Len(images) : BlankAt(i)
    /\ \E i, j \in 1..Len(images) : i < j /\ images[i] = images[j] /\ ~BlankAt(i)

\* C2: no returned group is empty, whatever the place of the blanks.
C2_NoEmptyGroup ==
    Returned => \A g \in 1..Len(result) : Len(result[g]) > 0

C2_Witness ==
    /\ Returned
    /\ Len(images) >= 3
    /\ BlankAt(1)
    /\ BlankAt(Len(images))
    /\ \E i \in 1..(Len(images) - 1) : BlankAt(i) /\ BlankAt(i + 1)
    /\ Len(result) >= 1

\* C3: every returned group is a maximal run of non-blank input positions:
\* consecutive positions, bounded on each side by a blank or by the end of the
\* input, and two adjacent non-blank positions are in the same group.
C3_GroupsAreMaximalRuns ==
    Returned =>
        LET n == Len(images)
            GroupOf(i) == {g \in 1..Len(groupsAt) : \E j \in 1..Len(groupsAt[g]) : groupsAt[g][j] = i}
        IN  /\ Len(result) = Len(groupsAt)
            /\ \A g \in 1..Len(groupsAt) :
                  LET ps == groupsAt[g]
                  IN  /\ Len(ps) >= 1
                      /\ \A j \in 1..(Len(ps) - 1) : ps[j + 1] = ps[j] + 1
                      /\ \A j \in 1..Len(ps) : ps[j] \in 1..n /\ ~BlankAt(ps[j])
                      /\ ps[1] > 1 => BlankAt(ps[1] - 1)
                      /\ ps[Len(ps)] < n => BlankAt(ps[Len(ps)] + 1)
                      /\ ~config.saveGroups => result[g] = ImagesAt(ps)
                      /\ config.saveGroups =>
                            /\ Len(result[g]) = Len(ps)
                            /\ \A j \in 1..Len(ps) : result[g][j].image = images[ps[j]]
            /\ \A g, h \in 1..Len(groupsAt) : g < h => groupsAt[g][1] < groupsAt[h][1]
            /\ \A i \in 1..n : ~BlankAt(i) => Cardinality(GroupOf(i)) = 1
            /\ \A i \in 1..(n - 1) : ~BlankAt(i) /\ ~BlankAt(i + 1) => GroupOf(i) = GroupOf(i + 1)

C3_Witness ==
    /\ Returned
    /\ Len(groupsAt) >= 2
    /\ \E g \in 1..Len(groupsAt) : Len(groupsAt[g]) >= 2

\* C6: with saveGroups off, an empty input gives no group, a non-empty input
\* without a blank gives the single group of all its images, an input of blanks
\* only gives no group.
C6_EdgePolicy ==
    Plain =>
        LET n == Len(images)
        IN  /\ n = 0 => result = <<>>
            /\ (n > 0 /\ \A i \in 1..n : ~BlankAt(i)) => result = <<images>>
            /\ (\A i \in 1..n : BlankAt(i)) => result = <<>>

C6_Witness ==
    /\ Plain
    /\ Len(images) >= 2
    /\ \A i \in 1..Len(images) : ~BlankAt(i)
    /\ Len(result) = 1

C6_WitnessAllBlank ==
    /\ Plain
    /\ Len(images) >= 2
    /\ \A i \in 1..Len(images) : BlankAt(i)

C6_WitnessEmpty == Plain /\ images = <<>>

\* C9: at every point of the scan the flushed groups are non-empty and free of
\* blanks, the flushed groups followed by the buffer are the non-blank images
\* of the prefix consumed so far, and a step of the scan only ever appends to
\* the flushed groups.
C9_ScanInvariant ==
    pc = "loop" =>
        /\ idx \in 0..Len(images)
        /\ Len(groups) = Len(groupsAt)
        /\ \A g \in 1..Len(groups) :
              /\ Len(groups[g]) > 0
              /\ groups[g] = ImagesAt(groupsAt[g])
              /\ \A j \in 1..Len(groupsAt[g]) : ~BlankAt(groupsAt[g][j])
        /\ currentGroup = ImagesAt(currentAt)
        /\ Concat(groupsAt) \o currentAt = NonBlankUpTo(idx)
        /\ Concat(groups) \o currentGroup = ImagesAt(NonBlankUpTo(idx))

C9_FlushedKept ==
    pc = "loop" => IsPrefix(groups, groups') /\ IsPrefix(groupsAt, groupsAt')

C9_PartialResultsValid == []C9_ScanInvariant /\ [][C9_FlushedKept]_vars

C9_Witness ==
    /\ pc = "loop"
    /\ idx < Len(images)
    /\ Len(groups) >= 1
    /\ Len(currentGroup) >= 1

\* C10: one groupImages call classifies each input position exactly once, in
\* input order, always with the same blank colour and threshold.
C10_OneCallPerImage ==
    /\ pc = "loop" => Len(calls) = idx
    /\ Returned => Len(calls) = Len(images)
    /\ \A i \in 1..Len(calls) :
          /\ calls[i].pos = i
          /\ calls[i].blankColor = calls[1].blankColor
          /\ calls[i].threshold = calls[1].threshold
          /\ calls[i].blankColor = config.blankColor
          /\ calls[i].threshold = config.threshold

C10_Witness ==
    /\ Returned
    /\ Len(images) >= 3
    /\ Len(calls) = Len(images)
    /\ \E i, j \in 1..Len(calls) : calls[i].ret /\ ~calls[j].ret

\* C5 as stated: every classification of a groupImages call uses the caller's
\* blank colour and threshold when the options carry them, and the instance's
\* delimiterColor and colorThreshold when they do not.
C5_CallerValuesUsed ==
    \A i \in 1..Len(calls) :
        /\ calls[i].blankColor =
              IF "blankColor" \in DOMAIN options THEN options.blankColor
              ELSE thisConfig.delimiterColor
        /\ calls[i].threshold =
              IF "threshold" \in DOMAIN options THEN options.threshold
              ELSE thisConfig.colorThreshold

-----------------------------------------------------------------------------
(* Properties of isBlankImage *)

BlankCall == pure.fn = "isBlankImage" /\ pure.done

\* the sum over the three sampled pixels of |dr| + |dg| + |db| to the blank colour
SampledDistance ==
    LET ch(i, c) == Abs(pure.px[i][c] - pure.rgb[c])
        pt(i) == ch(i, 1) + ch(i, 2) + ch(i, 3)
    IN  pt(1) + pt(2) + pt(3)

UsedThreshold ==
    IF "threshold" \in DOMAIN pure.arg.args THEN pure.arg.args.threshold ELSE 10

\* C4 as stated: the image is blank iff the average over the three points of
\* the mean channel difference (|dr| + |dg| + |db|) / 3 is within the
\* threshold, that is iff the sampled distance is at most 9 * threshold.
C4_MeanChannelDifference ==
    BlankCall => (pure.ret[1] <=> SampledDistance <= 9 * UsedThreshold)

\* C4 amended: the image is blank iff the average over the three points of the
\* per-point sum |dr| + |dg| + |db| is within the threshold (inclusive), that
\* is iff the sampled distance is at most 3 * threshold.
C4_SummedChannelDifference ==
    BlankCall => (pure.ret[1] <=> SampledDistance <= 3 * UsedThreshold)

C4_Witness ==
    /\ BlankCall
    /\ UsedThreshold > 0
    /\ SampledDistance = 3 * UsedThreshold
    /\ pure.ret[1]

-----------------------------------------------------------------------------
(* Properties of hexToRgb *)

HexCall == pure.fn = "hexToRgb" /\ pure.done

HexDigits == {c \in HexAlphabet : c # "#" /\ c # "g"}

\* hex is an optional '#' followed by exactly six hexadecimal digits
WellFormed(hex) ==
    \E p \in {<<>>, <<"#">>} : \E d \in [1..6 -> HexDigits] : hex = p \o d

\* C7: a well-formed string maps to the colour whose channels are the values
\* of its three digit pairs, each in 0..255; every other string maps to white.
C7_HexToRgb ==
    HexCall =>
        LET hex == pure.arg
            rgb == pure.ret[1]
            d == IF hex # <<>> /\ Head(hex) = "#" THEN Tail(hex) ELSE hex
        IN  IF WellFormed(hex)
            THEN /\ rgb.r = 16 * HexDigitValue(d[1]) + HexDigitValue(d[2])
                 /\ rgb.g = 16 * HexDigitValue(d[3]) + HexDigitValue(d[4])
                 /\ rgb.b = 16 * HexDigitValue(d[5]) + HexDigitValue(d[6])
                 /\ {rgb.r, rgb.g, rgb.b} \subseteq 0..255
            ELSE rgb = [r |-> 255, g |-> 255, b |-> 255]

C7_Witness ==
    /\ HexCall
    /\ pure.arg = <<"#", "a", "F", "0", "0", "F", "a">>
    /\ pure.ret[1] = [r |-> 175, g |-> 0, b |-> 250]

C7_WitnessFallback ==
    /\ HexCall
    /\ pure.arg = <<"#", "a", "F", "0", "0", "F">>
    /\ pure.ret[1] = [r |-> 255, g |-> 255, b |-> 255]

-----------------------------------------------------------------------------
(* Properties of the sample points *)

PointsCall == pure.fn = "samplePoints" /\ pure.done

\* the coordinates computed along an axis of extent d
AxisOK(d, cs) == \A c \in cs : c >= 0 /\ (d >= 1 => c <= d - 1)

Xs == {pure.ret[1][i].x : i \in 1..3}
Ys == {pure.ret[1][i].y : i \in 1..3}

\* C8 as stated: for a degenerate image (a width or height of 0, 1 or less)
\* every sample coordinate is a valid index: at least 0, and at most d - 1
\* along an axis of extent d >= 1.
C8_DegenerateClamped ==
    (PointsCall /\ (pure.arg.width <= 1 \/ pure.arg.height <= 1)) =>
        AxisOK(pure.arg.width, Xs) /\ AxisOK(pure.arg.height, Ys)

\* C8 amended: along an axis of extent d >= 0 (0 and 1 included) every sample
\* coordinate is at least 0, and at most d - 1 when d >= 1; along an axis of
\* negative extent nothing is clamped and every sample coordinate is negative.
C8_NonNegativeInRange ==
    PointsCall =>
        /\ pure.arg.width >= 0 => AxisOK(pure.arg.width, Xs)
        /\ pure.arg.height >= 0 => AxisOK(pure.arg.height, Ys)
        /\ pure.arg.width < 0 => \A c \in Xs : c < 0
        /\ pure.arg.height < 0 => \A c \in Ys : c < 0

C8_Witness ==
    /\ PointsCall
    /\ pure.arg.width = 1
    /\ pure.arg.height = 0
    /\ Xs = {0}
    /\ Ys = {0}

====
